---- MODULE Spec2Model ----
(***************************************************************************)
(* A model of rdbg: the producer-side library (src/rdbg/src/lib.rs: wire   *)
(* encoding, bounded mailbox, manager thread, flush rendezvous, process-   *)
(* wide registry) and the viewer-side connector (src/rdbg_view/src/lib.rs: *)
(* ByteBuffer decoding and MsgIterator).                                   *)
(*                                                                         *)
(* Strings are sequences of bytes (0..255).  A u64 is kept as the pair     *)
(* <<high 32 bits, low 32 bits>>; every u32 the model builds is below 2^31.*)
(***************************************************************************)
EXTENDS Integers, Sequences, FiniteSets, TLC

(***************************************************************************)
(* Bounds of the model.                                                    *)
(***************************************************************************)
NumThreads == 2      \* application threads of the process
NumProducers == 1    \* of them, the threads that run in ProducerSpec
MaxOps == 2          \* events (messages and flush markers) built per run
MaxFlushOps == 3     \* the same, in FlushSpec
MaxConns == 2        \* connections the manager accepts per run
MaxCut == 1          \* a failed write stops after < MaxCut bytes, or one short
MaxClock == 2        \* the clock runs from 1 to MaxClock
MaxStrLen == 2       \* CodecSpec: the longest text
MaxVals == 2         \* CodecSpec: the longest name/value list
Overfill == 2        \* MailboxSpec: calls made beyond the mailbox's capacity
MaxMarkers == 1      \* MailboxSpec: flush markers sent per run
MaxChunks == 2       \* ConnectorSpec: frames or pieces of frames a server writes per connection
SureAlloc == 1073741824  \* DecodeSpec: bytes an allocation request is taken to always get
MaxTail == 4         \* ThreadIdSpec: characters after the prefix of a text passed to parse_thread_id

(***************************************************************************)
(* Program constants.                                                      *)
(***************************************************************************)
DEFAULT_PORT == 13579
CHAN_MAX_MESSAGES == 32
LEN_FIELD_SIZE == 4
WIRE_PROTOCOL_VERSION == 1
THREAD_ID_PREFIX == <<84, 104, 114, 101, 97, 100, 73, 100>>   \* "ThreadId"

Threads == 1..NumThreads
Producers == 1..NumProducers
Bytes == 0..255

None == [none |-> TRUE]

(***************************************************************************)
(* Sequence helpers.                                                       *)
(***************************************************************************)
Take(s, n) == SubSeq(s, 1, n)
Drop(s, n) == SubSeq(s, n + 1, Len(s))
IsPrefix(p, s) == Len(p) <= Len(s) /\ Take(s, Len(p)) = p
Range(s) == { s[i] : i \in 1..Len(s) }

RECURSIVE Flatten(_)
Flatten(ss) == IF ss = <<>> THEN <<>> ELSE Head(ss) \o Flatten(Tail(ss))

(***************************************************************************)
(* Integer encodings: i.to_be_bytes() for u8, u32, u64.                    *)
(***************************************************************************)
U8BE(i) == <<i % 256>>
U32BE(i) == << (i \div 16777216) % 256, (i \div 65536) % 256,
               (i \div 256) % 256, i % 256 >>
U64BE(t) == U32BE(t[1]) \o U32BE(t[2])

\* u32::from_be_bytes / u64::from_be_bytes
U32FromBE(b) == b[1] * 16777216 + b[2] * 65536 + b[3] * 256 + b[4]
U64FromBE(b) == << U32FromBE(SubSeq(b, 1, 4)), U32FromBE(SubSeq(b, 5, 8)) >>

(***************************************************************************)
(* Thread ids: format!("{:?}", thread::current().id()) and parse_thread_id.*)
(***************************************************************************)
RECURSIVE Decimal(_)
Decimal(n) == IF n < 10 THEN <<48 + n>> ELSE Decimal(n \div 10) \o <<48 + (n % 10)>>

\* "ThreadId(<n>)"
ThreadIdDebug(n) == THREAD_ID_PREFIX \o <<40>> \o Decimal(n) \o <<41>>

\* str::split(&['(', ')']): the pieces between delimiters, empty ones kept
RECURSIVE SplitAcc(_, _, _)
SplitAcc(s, delims, cur) ==
    IF s = <<>> THEN <<cur>>
    ELSE IF Head(s) \in delims
         THEN <<cur>> \o SplitAcc(Tail(s), delims, <<>>)
         ELSE SplitAcc(Tail(s), delims, Append(cur, Head(s)))

Split(s, delims) == SplitAcc(s, delims, <<>>)

parse_thread_id(thread_id) ==
    LET split == Split(thread_id, {40, 41}) IN
    IF split[1] = THREAD_ID_PREFIX
    THEN IF Len(split) >= 3 /\ split[3] = <<>> THEN split[2] ELSE thread_id
    ELSE thread_id

current_thread(n) == parse_thread_id(ThreadIdDebug(n))

(***************************************************************************)
(* Message encoding (producer side).  A payload is                          *)
(*   [tag |-> "Message", msg |-> s]  or                                    *)
(*   [tag |-> "Values", values |-> <<  <<name, value>>, ... >>].           *)
(***************************************************************************)
required_str_capacity(s) == Len(s) + LEN_FIELD_SIZE

RECURSIVE ValuesCapacity(_)
ValuesCapacity(values) ==
    IF values = <<>> THEN LEN_FIELD_SIZE
    ELSE ValuesCapacity(Take(values, Len(values) - 1))
         + required_str_capacity(values[Len(values)][1])
         + required_str_capacity(values[Len(values)][2])

required_capacity(payload) ==
    (IF payload.tag = "Message"
     THEN required_str_capacity(payload.msg)
     ELSE ValuesCapacity(payload.values)) + 1

write_str(s) == U32BE(Len(s)) \o s

\* Mutant of WriteValues: the pairs are written last to first.
WriteValuesBackwards(values) ==
    Flatten([i \in 1..Len(values) |->
                write_str(values[Len(values) + 1 - i][1])
                \o write_str(values[Len(values) + 1 - i][2])])

RECURSIVE WriteValues(_)
WriteValues(values) ==
    IF values = <<>> THEN <<>>
    ELSE write_str(Head(values)[1]) \o write_str(Head(values)[2])
         \o WriteValues(Tail(values))

write_payload(payload) ==
    IF payload.tag = "Message"
    THEN U8BE(1) \o write_str(payload.msg)
    ELSE U8BE(2) \o U32BE(Len(payload.values)) \o WriteValues(payload.values)

\* The value Message::new writes in the leading u32 field.
MessageLen(thread_id, filename, payload) ==
    LEN_FIELD_SIZE + 8 + required_str_capacity(thread_id)
    + required_str_capacity(filename) + 4 + required_capacity(payload)

\* Message::new, with the clock value and the calling thread's number as inputs.
MessageNew(time, thread, filename, line, payload) ==
    LET thread_id == current_thread(thread) IN
    U32BE(MessageLen(thread_id, filename, payload))
    \o U64BE(time) \o write_str(thread_id) \o write_str(filename)
    \o U32BE(line) \o write_payload(payload)

(***************************************************************************)
(* Decoding (viewer side).  A ByteBuffer is [buffer |-> bytes, idx |-> n]; *)
(* a Result is [ok |-> TRUE, val |-> v, bb |-> buffer after the read] or   *)
(* [ok |-> FALSE, err |-> "CorruptMsg" | "BadUtf8"].                       *)
(***************************************************************************)
from_vec(buffer) == [buffer |-> buffer, idx |-> 0]

Err(e) == [ok |-> FALSE, err |-> e]
Ok(v, bb) == [ok |-> TRUE, val |-> v, bb |-> bb]

as_slice(bb, len) ==
    IF bb.idx + len <= Len(bb.buffer)
    THEN Ok(SubSeq(bb.buffer, bb.idx + 1, bb.idx + len), [bb EXCEPT !.idx = bb.idx + len])
    ELSE Err("CorruptMsg")

\* Only({e}) is e, evaluated once: { f(x) : x \in {e} } binds x to the value of e.
Only(S) == CHOOSE x \in S : TRUE

read_u8(bb) ==
    Only({ IF r.ok THEN Ok(r.val[1], r.bb) ELSE r : r \in {as_slice(bb, 1)} })

read_u32(bb) ==
    Only({ IF r.ok THEN Ok(U32FromBE(r.val), r.bb) ELSE r : r \in {as_slice(bb, 4)} })

read_u64(bb) ==
    Only({ IF r.ok THEN Ok(U64FromBE(r.val), r.bb) ELSE r : r \in {as_slice(bb, 8)} })

\* std::str::from_utf8: the well-formed byte sequences of UTF-8
RECURSIVE Utf8Valid(_)
Utf8Valid(s) ==
    IF s = <<>> THEN TRUE
    ELSE LET b == s[1]
             Cont(i) == i <= Len(s) /\ s[i] >= 128 /\ s[i] <= 191
         IN  IF b < 128 THEN Utf8Valid(Drop(s, 1))
             ELSE IF b >= 194 /\ b <= 223
                  THEN Cont(2) /\ Utf8Valid(Drop(s, 2))
             ELSE IF b >= 224 /\ b <= 239
                  THEN Cont(2) /\ Cont(3)
                       /\ (b = 224 => s[2] >= 160) /\ (b = 237 => s[2] <= 159)
                       /\ Utf8Valid(Drop(s, 3))
             ELSE IF b >= 240 /\ b <= 244
                  THEN Cont(2) /\ Cont(3) /\ Cont(4)
                       /\ (b = 240 => s[2] >= 144) /\ (b = 244 => s[2] <= 143)
                       /\ Utf8Valid(Drop(s, 4))
             ELSE FALSE

\* read_str, given the result of its read_u32
ReadStrBody(l) ==
    IF ~l.ok THEN l
    ELSE Only({ IF ~r.ok THEN r
                ELSE IF Utf8Valid(r.val) THEN r ELSE Err("BadUtf8")
                : r \in {as_slice(l.bb, l.val)} })

read_str(bb) == Only({ ReadStrBody(l) : l \in {read_u32(bb)} })

\* MsgPayloadVal::try_from(u8)
MsgPayloadVal_try_from(value) ==
    IF value = 1 THEN "Message" ELSE IF value = 2 THEN "Values" ELSE "CorruptMsg"

\* the loop `for _ in 0..len` of MsgPayload::from_buffer
RECURSIVE ReadValues(_, _, _)
ReadValues(bb, n, values) ==
    IF n = 0 THEN Ok(values, bb)
    ELSE Only({ IF ~name.ok THEN name
                ELSE Only({ IF ~val.ok THEN val
                            ELSE ReadValues(val.bb, n - 1,
                                            Append(values, <<name.val, val.val>>))
                            : val \in {read_str(name.bb)} })
                : name \in {read_str(bb)} })

\* MsgPayload::from_buffer, given the result of reading the tag byte
PayloadBody(t) ==
    IF ~t.ok THEN t
    ELSE IF MsgPayloadVal_try_from(t.val) = "CorruptMsg" THEN Err("CorruptMsg")
    ELSE IF MsgPayloadVal_try_from(t.val) = "Message"
         THEN Only({ IF ~s.ok THEN s
                     ELSE Ok([tag |-> "Message", msg |-> s.val], s.bb)
                     : s \in {read_str(t.bb)} })
         ELSE Only({ IF ~len.ok THEN len
                     ELSE Only({ IF ~vs.ok THEN vs
                                 ELSE Ok([tag |-> "Values", values |-> vs.val], vs.bb)
                                 : vs \in {ReadValues(len.bb, len.val, <<>>)} })
                     : len \in {read_u32(t.bb)} })

MsgPayload_from_buffer(bb) == Only({ PayloadBody(t) : t \in {read_u8(bb)} })

Message_from_buffer(bb) ==
    Only({ IF ~time.ok THEN time ELSE
    Only({ IF ~thread_id.ok THEN thread_id ELSE
    Only({ IF ~filename.ok THEN filename ELSE
    Only({ IF ~line.ok THEN line ELSE
    Only({ IF ~payload.ok THEN payload ELSE
           Ok([time |-> time.val, thread_id |-> thread_id.val,
               filename |-> filename.val, line |-> line.val,
               payload |-> payload.val], payload.bb)
         : payload \in {MsgPayload_from_buffer(line.bb)} })
         : line \in {read_u32(filename.bb)} })
         : filename \in {read_str(thread_id.bb)} })
         : thread_id \in {read_str(time.bb)} })
         : time \in {read_u64(bb)} })

(***************************************************************************)
(* State.                                                                  *)
(***************************************************************************)
VARIABLES
    registry,   \* REMOTE_DEBUG: 0 for None, else the number of the manager it holds
    managers,   \* the port of every manager thread spawned so far, in order
    handle,     \* per application thread: the manager its RemoteDebug handle shares (0: none yet)
    pc,         \* per application thread: where it is in send_message / flush
    out,        \* per application thread: the event it is about to put in the mailbox
    mailbox,    \* the sync_channel's buffer
    flushed,    \* the bool of Flushed
    mgr,        \* the manager thread: "unborn", "bind", "listen", "serve", "exited"
    listener,   \* its TcpListener: "none", "bound", "failed" (the last bind returned Err)
    curr_msg,   \* the manager's curr_msg: None or a NewMessage event
    conns,      \* the bytes written on every accepted connection, in accept order
    clock,      \* the system clock (ms)
    vaddr,      \* the connector's configured port
    vst,        \* the connector: "connecting", "handshake", "connected"
    vconn,      \* the connection the connector's stream is the peer of
    vpos,       \* how many bytes of it the connector has read
    items,      \* the items next() has yielded
    nbuilt,     \* history: events built so far (the next event id)
    enq,        \* history: the events in the order their enqueue completed
    written,    \* history: ids of the messages whose write completed, in order
    snap,       \* history: per thread, the message ids enqueued when its flush() began
    returned,   \* history: per flush() that returned, <<snap, messages written at return>>
    pend,       \* history: per accepted connection, curr_msg when it was accepted
    deq,        \* history: the events the manager has received, in order
    firstPort,  \* history: the port passed to the from_port call that ran first (0: none)
    asked,      \* history: per thread, the port it passed to its latest from_port call
    cmsg,       \* codec: the arguments of a Message::new call (None: none yet)
    cframe,     \* codec: the frame that call built
    cdec,       \* codec: the result of decoding the frame (None: not decoded)
    tid_arg,    \* thread ids: the argument of a parse_thread_id call (None: none yet)
    tid_ret     \* thread ids: what the call returned (None: not returned)

vars == << registry, managers, handle, pc, out, mailbox, flushed, mgr, listener, curr_msg,
           conns, clock, vaddr, vst, vconn, vpos, items, nbuilt, enq, written,
           snap, returned, pend, deq, firstPort, asked, cmsg, cframe, cdec,
           tid_arg, tid_ret >>

regVars == << registry, managers, handle, firstPort, asked >>
codecVars == << cmsg, cframe, cdec, tid_arg, tid_ret >>
viewVars == << vaddr, vst, vconn, vpos, items >>

(***************************************************************************)
(* Inputs.                                                                 *)
(***************************************************************************)
Ports == {DEFAULT_PORT, 5000}
FileName == <<97, 46, 114, 115>>                           \* "a.rs"
Hello == [tag |-> "Message", msg |-> <<104, 105>>]         \* Text("hi")
XIs1 == [tag |-> "Values", values |-> << <<(<<120>>), (<<49>>)>> >>]  \* [("x", "1")]
Calls == { [filename |-> FileName, line |-> 10, payload |-> Hello],
           [filename |-> FileName, line |-> 11, payload |-> XIs1] }

\* Events carry two history fields: id, the order they were built in, and (messages)
\* src, the values the frame was built from.
NewMessage(id, frame, src) == [kind |-> "NewMessage", id |-> id, frame |-> frame, src |-> src]
Flush(id) == [kind |-> "Flush", id |-> id]

MsgIds(events) == { events[i].id : i \in { j \in 1..Len(events) : events[j].kind = "NewMessage" } }

Init ==
    /\ registry = 0
    /\ managers = <<>>
    /\ handle = [t \in Threads |-> 0]
    /\ pc = [t \in Threads |-> "idle"]
    /\ out = [t \in Threads |-> None]
    /\ mailbox = <<>>
    /\ flushed = FALSE
    /\ mgr = "unborn"
    /\ listener = "none"
    /\ curr_msg = None
    /\ conns = <<>>
    /\ clock = 1
    /\ vaddr = DEFAULT_PORT
    /\ vst = "connecting"
    /\ vconn = 0
    /\ vpos = 0
    /\ items = <<>>
    /\ nbuilt = 0
    /\ enq = <<>>
    /\ written = <<>>
    /\ snap = [t \in Threads |-> {}]
    /\ returned = <<>>
    /\ pend = <<>>
    /\ deq = <<>>
    /\ firstPort = 0
    /\ asked = [t \in Threads |-> 0]
    /\ cmsg = None
    /\ cframe = <<>>
    /\ cdec = None
    /\ tid_arg = None
    /\ tid_ret = None

Alive == mgr # "exited"

(***************************************************************************)
(* Registry: RemoteDebug::from_port, reached through port(p), default(),   *)
(* msg!/vals! and flush().  The whole body runs under the REMOTE_DEBUG     *)
(* mutex.  handle_connections spawns the manager thread.                   *)
(***************************************************************************)
handle_connections(port) ==
    /\ managers' = Append(managers, port)
    /\ mgr' = "bind"
    /\ listener' = "none"

\* Mutant of from_port: the global is not consulted.
from_portAlwaysNew(t, port) ==
    /\ handle_connections(port)
    /\ registry' = Len(managers) + 1
    /\ handle' = [handle EXCEPT ![t] = Len(managers) + 1]

from_port(t, port) ==
    IF registry # 0
    THEN /\ handle' = [handle EXCEPT ![t] = registry]
         /\ UNCHANGED << registry, managers, mgr, listener >>
    ELSE /\ handle_connections(port)
         /\ registry' = Len(managers) + 1
         /\ handle' = [handle EXCEPT ![t] = Len(managers) + 1]

FromPort(t, port) ==
    /\ Alive
    /\ pc[t] = "idle"
    /\ from_port(t, port)
    /\ firstPort' = IF firstPort = 0 THEN port ELSE firstPort
    /\ asked' = [asked EXCEPT ![t] = port]
    /\ UNCHANGED << codecVars, deq, pc, out, mailbox, flushed, curr_msg, conns, clock, vaddr, vst,
                    vconn, vpos, items, nbuilt, enq, written, snap, returned, pend >>

(***************************************************************************)
(* Application threads: send_message and flush on a handle.                *)
(***************************************************************************)
\* SyncSender::send returns once the bounded buffer has a free slot.
\* Mutants of HasRoom: a channel without a bound; a channel one slot short.
HasRoomAlways == TRUE
HasRoomOneShort == Len(mailbox) < CHAN_MAX_MESSAGES - 1

HasRoom == Len(mailbox) < CHAN_MAX_MESSAGES

\* current_time(): the clock, as a u64
current_time == <<0, clock>>

\* send_message, first half: Message::new builds the frame in the calling thread.
SendCall(t, c) ==
    /\ Alive
    /\ pc[t] = "idle"
    /\ handle[t] # 0
    /\ out' = [out EXCEPT ![t] =
                 NewMessage(nbuilt + 1,
                            MessageNew(current_time, t, c.filename, c.line, c.payload),
                            [time |-> current_time, thread_id |-> current_thread(t),
                             filename |-> c.filename, line |-> c.line,
                             payload |-> c.payload])]
    /\ nbuilt' = nbuilt + 1
    /\ pc' = [pc EXCEPT ![t] = "send"]
    /\ UNCHANGED << codecVars, deq, regVars, mailbox, flushed, mgr, listener, curr_msg, conns, clock, viewVars,
                    enq, written, snap, returned, pend >>

\* send_message, second half: sender.send(Event::NewMessage(..)) completes.
SendDone(t) ==
    /\ Alive
    /\ pc[t] = "send"
    /\ HasRoom
    /\ mailbox' = Append(mailbox, out[t])
    /\ enq' = Append(enq, out[t])
    /\ out' = [out EXCEPT ![t] = None]
    /\ pc' = [pc EXCEPT ![t] = "idle"]
    /\ UNCHANGED << codecVars, deq, regVars, flushed, mgr, listener, curr_msg, conns, clock, viewVars,
                    nbuilt, written, snap, returned, pend >>

\* flush() is called: flush_and_wait is about to send the marker.
FlushCall(t) ==
    /\ Alive
    /\ pc[t] = "idle"
    /\ handle[t] # 0
    /\ out' = [out EXCEPT ![t] = Flush(nbuilt + 1)]
    /\ nbuilt' = nbuilt + 1
    /\ snap' = [snap EXCEPT ![t] = MsgIds(enq)]
    /\ pc' = [pc EXCEPT ![t] = "flush_send"]
    /\ UNCHANGED << codecVars, deq, regVars, mailbox, flushed, mgr, listener, curr_msg, conns, clock, viewVars,
                    enq, written, returned, pend >>

\* sender.send(Event::Flush) completes; the thread goes on to lock the flag.
FlushSend(t) ==
    /\ Alive
    /\ pc[t] = "flush_send"
    /\ HasRoom
    /\ mailbox' = Append(mailbox, out[t])
    /\ enq' = Append(enq, out[t])
    /\ out' = [out EXCEPT ![t] = None]
    /\ pc' = [pc EXCEPT ![t] = "flush_check"]
    /\ UNCHANGED << codecVars, deq, regVars, flushed, mgr, listener, curr_msg, conns, clock, viewVars,
                    nbuilt, written, snap, returned, pend >>

\* Under the lock: `while !*flushed { wait }; *flushed = false`, one test of the flag.
FlushCheck(t) ==
    /\ Alive
    /\ pc[t] = "flush_check"
    /\ IF flushed
       THEN /\ flushed' = FALSE
            /\ pc' = [pc EXCEPT ![t] = "idle"]
            /\ returned' = Append(returned, <<snap[t], Range(written)>>)
       ELSE /\ pc' = [pc EXCEPT ![t] = "flush_wait"]
            /\ UNCHANGED << flushed, returned >>
    /\ UNCHANGED << codecVars, deq, regVars, out, mailbox, mgr, listener, curr_msg, conns, clock, viewVars,
                    nbuilt, enq, written, snap, pend >>

\* Condvar::wait may return without a notification.
SpuriousWake(t) ==
    /\ Alive
    /\ pc[t] = "flush_wait"
    /\ pc' = [pc EXCEPT ![t] = "flush_check"]
    /\ UNCHANGED << codecVars, deq, regVars, out, mailbox, flushed, mgr, listener, curr_msg, conns, clock,
                    viewVars, nbuilt, enq, written, snap, returned, pend >>

\* Flushed::flushed: set the flag and notify_one.
flushed_notify ==
    /\ flushed' = TRUE
    /\ LET waiting == { t \in Threads : pc[t] = "flush_wait" } IN
       IF waiting = {} THEN pc' = pc
       ELSE \E w \in waiting : pc' = [pc EXCEPT ![w] = "flush_check"]

(***************************************************************************)
(* The manager thread: the loop of handle_connections and process_stream.  *)
(***************************************************************************)
\* write_to_stream stopping after n bytes: all of them, or an error after fewer.
write_to_stream(buffer, n) == [ok |-> n = Len(buffer), bytes |-> Take(buffer, n)]

CutPoints(buffer) == { k \in 0..(Len(buffer) - 1) : k < MaxCut \/ k = Len(buffer) - 1 }
WriteOutcomes(buffer) == {Len(buffer)} \cup CutPoints(buffer)

\* TcpListener::bind: Ok, or Err and exit(1).
\* Mutant of AfterBindError: the manager goes on to accept.
AfterBindErrorGoesOn == "listen"

\* Where the manager is after bind returned Err: exit(1) ended the process.
AfterBindError == "exited"

Bind(ok) ==
    /\ mgr = "bind"
    /\ mgr' = IF ok THEN "listen" ELSE AfterBindError
    /\ listener' = IF ok THEN "bound" ELSE "failed"
    /\ UNCHANGED << codecVars, deq, regVars, pc, out, mailbox, flushed, curr_msg, conns, clock,
                    viewVars, nbuilt, enq, written, snap, returned, pend >>

\* The connector's connect() reaches this manager's listener.
Reaches == vst = "connecting" /\ managers # <<>> /\ vaddr = managers[1]

\* listener.incoming().next() yields Err: the loop binds again.
AcceptErr ==
    /\ mgr = "listen"
    /\ mgr' = "bind"
    /\ listener' = "none"
    /\ UNCHANGED << codecVars, deq, regVars, pc, out, mailbox, flushed, curr_msg, conns, clock,
                    viewVars, nbuilt, enq, written, snap, returned, pend >>

\* listener.incoming().next() yields a stream; process_stream writes the version
\* byte (n = 1) or fails to (n = 0) and returns false.  The peer is the connector
\* (viewer = TRUE) or some other TCP client.
\* Mutant of Accept: no handshake byte when a message is pending.
AcceptResumes(n, viewer) ==
    /\ mgr = "listen"
    /\ Len(conns) < MaxConns
    /\ LET w == IF curr_msg # None
                THEN [ok |-> TRUE, bytes |-> <<>>]
                ELSE write_to_stream(U8BE(WIRE_PROTOCOL_VERSION), n) IN
       /\ conns' = Append(conns, w.bytes)
       /\ mgr' = IF w.ok THEN "serve" ELSE "bind"
       /\ listener' = IF w.ok THEN listener ELSE "none"
    /\ pend' = Append(pend, curr_msg)
    /\ IF viewer
       THEN /\ Reaches
            /\ vst' = "handshake"
            /\ vconn' = Len(conns) + 1
       ELSE UNCHANGED << vst, vconn >>
    /\ UNCHANGED << codecVars, deq, regVars, pc, out, mailbox, flushed, curr_msg, clock, vaddr, vpos,
                    items, nbuilt, enq, written, snap, returned >>

\* Mutant of Accept: process_stream goes on into its loop after a failed handshake write.
AcceptServesAnyway(n, viewer) ==
    /\ mgr = "listen"
    /\ Len(conns) < MaxConns
    /\ LET w == write_to_stream(U8BE(WIRE_PROTOCOL_VERSION), n) IN
       /\ conns' = Append(conns, w.bytes)
       /\ mgr' = "serve"
       /\ listener' = listener
    /\ pend' = Append(pend, curr_msg)
    /\ IF viewer
       THEN /\ Reaches
            /\ vst' = "handshake"
            /\ vconn' = Len(conns) + 1
       ELSE UNCHANGED << vst, vconn >>
    /\ UNCHANGED << codecVars, deq, regVars, pc, out, mailbox, flushed, curr_msg, clock, vaddr, vpos,
                    items, nbuilt, enq, written, snap, returned >>

Accept(n, viewer) ==
    /\ mgr = "listen"
    /\ Len(conns) < MaxConns
    /\ LET w == write_to_stream(U8BE(WIRE_PROTOCOL_VERSION), n) IN
       /\ conns' = Append(conns, w.bytes)
       /\ mgr' = IF w.ok THEN "serve" ELSE "bind"
       /\ listener' = IF w.ok THEN listener ELSE "none"
    /\ pend' = Append(pend, curr_msg)
    /\ IF viewer
       THEN /\ Reaches
            /\ vst' = "handshake"
            /\ vconn' = Len(conns) + 1
       ELSE UNCHANGED << vst, vconn >>
    /\ UNCHANGED << codecVars, deq, regVars, pc, out, mailbox, flushed, curr_msg, clock, vaddr, vpos,
                    items, nbuilt, enq, written, snap, returned >>

\* Mutants of CanRecv: recv() also while a message is pending; recv() also while
\* no connection is being serviced.
CanRecvWhilePending == mgr = "serve"
CanRecvWhileListening == mgr \in {"listen", "serve"} /\ curr_msg = None

\* The manager is at receiver.recv(): inside process_stream's loop with no curr_msg.
CanRecv == mgr = "serve" /\ curr_msg = None

\* Mutant of Recv: a flush marker is taken for a request to quit, and the manager stops.
RecvQuits ==
    /\ CanRecv
    /\ mailbox # <<>>
    /\ mailbox' = Tail(mailbox)
    /\ deq' = Append(deq, Head(mailbox))
    /\ IF Head(mailbox).kind = "NewMessage"
       THEN /\ curr_msg' = Head(mailbox)
            /\ UNCHANGED << flushed, pc, mgr >>
       ELSE /\ flushed_notify
            /\ mgr' = "stopped"
            /\ UNCHANGED curr_msg
    /\ UNCHANGED << codecVars, regVars, out, listener, conns, clock, viewVars, nbuilt, enq,
                    written, snap, returned, pend >>

\* receiver.recv() returns the oldest event.
Recv ==
    /\ CanRecv
    /\ mailbox # <<>>
    /\ mailbox' = Tail(mailbox)
    /\ deq' = Append(deq, Head(mailbox))
    /\ IF Head(mailbox).kind = "NewMessage"
       THEN /\ curr_msg' = Head(mailbox)
            /\ UNCHANGED << flushed, pc >>
       ELSE /\ flushed_notify
            /\ UNCHANGED curr_msg
    /\ UNCHANGED << codecVars, regVars, out, mgr, listener, conns, clock, viewVars, nbuilt, enq,
                    written, snap, returned, pend >>

\* Mutant of Write: process_stream returns after every message it wrote.
WriteThenLeaves(n) ==
    /\ mgr = "serve"
    /\ curr_msg # None
    /\ LET w == write_to_stream(curr_msg.frame, n) IN
       /\ conns' = [conns EXCEPT ![Len(conns)] = @ \o w.bytes]
       /\ IF w.ok
          THEN /\ curr_msg' = None
               /\ written' = Append(written, curr_msg.id)
               /\ mgr' = "bind"
               /\ listener' = "none"
          ELSE /\ curr_msg' = curr_msg
               /\ written' = written
               /\ mgr' = "bind"
               /\ listener' = "none"
    /\ UNCHANGED << codecVars, deq, regVars, pc, out, mailbox, flushed, clock, viewVars, nbuilt, enq,
                    snap, returned, pend >>

\* Mutant of Write: the time field is filled in from the clock when the frame is written.
WriteRestamps(n) ==
    /\ mgr = "serve"
    /\ curr_msg # None
    /\ LET stamped == Take(curr_msg.frame, LEN_FIELD_SIZE) \o U64BE(current_time)
                          \o Drop(curr_msg.frame, LEN_FIELD_SIZE + 8)
           w == write_to_stream(stamped, n) IN
       /\ conns' = [conns EXCEPT ![Len(conns)] = @ \o w.bytes]
       /\ IF w.ok
          THEN /\ curr_msg' = None
               /\ written' = Append(written, curr_msg.id)
               /\ mgr' = mgr
               /\ listener' = listener
          ELSE /\ curr_msg' = curr_msg
               /\ written' = written
               /\ mgr' = "bind"
               /\ listener' = "none"
    /\ UNCHANGED << codecVars, deq, regVars, pc, out, mailbox, flushed, clock, viewVars, nbuilt, enq,
                    snap, returned, pend >>

\* Mutant of AfterWriteError: the failed message is forgotten.
AfterWriteErrorForget(msg) == None

\* What curr_msg holds after a write of it failed.
AfterWriteError(msg) == msg

\* write_to_stream(msg.as_slice(), stream) ends after n bytes.
Write(n) ==
    /\ mgr = "serve"
    /\ curr_msg # None
    /\ LET w == write_to_stream(curr_msg.frame, n) IN
       /\ conns' = [conns EXCEPT ![Len(conns)] = @ \o w.bytes]
       /\ IF w.ok
          THEN /\ curr_msg' = None
               /\ written' = Append(written, curr_msg.id)
               /\ mgr' = mgr
               /\ listener' = listener
          ELSE /\ curr_msg' = AfterWriteError(curr_msg)
               /\ written' = written
               /\ mgr' = "bind"
               /\ listener' = "none"
    /\ UNCHANGED << codecVars, deq, regVars, pc, out, mailbox, flushed, clock, viewVars, nbuilt, enq,
                    snap, returned, pend >>

\* Time passes.
Tick ==
    /\ clock < MaxClock
    /\ clock' = clock + 1
    /\ UNCHANGED << codecVars, deq, regVars, pc, out, mailbox, flushed, mgr, listener, curr_msg, conns, viewVars,
                    nbuilt, enq, written, snap, returned, pend >>

(***************************************************************************)
(* The connector: MsgIterator::next.                                       *)
(***************************************************************************)
Connected(addr) == [ev |-> "Connected", addr |-> addr]
Disconnected(addr) == [ev |-> "Disconnected", addr |-> addr]
MessageEv(msg) == [ev |-> "Message", msg |-> msg]
ErrorItem(err) == [ev |-> "Error", err |-> err]

\* The manager no longer holds connection c (its stream was dropped, or it exited).
Closed(c) == ~(mgr = "serve" /\ c = Len(conns))

\* Mutant of ViewerHandshake: after BadVersion the stream is kept.
ViewerHandshakeKeepsStream ==
    /\ vst = "handshake"
    /\ IF Len(conns[vconn]) >= 1
       THEN IF conns[vconn][1] = WIRE_PROTOCOL_VERSION
            THEN /\ vst' = "connected"
                 /\ vpos' = 1
                 /\ items' = Append(items, Connected(vaddr))
            ELSE /\ vst' = "connected"
                 /\ vpos' = 1
                 /\ items' = Append(items, ErrorItem("BadVersion"))
       ELSE /\ Closed(vconn)
            /\ vst' = "connecting"
            /\ UNCHANGED << vpos, items >>
    /\ UNCHANGED << codecVars, deq, regVars, pc, out, mailbox, flushed, mgr, listener, curr_msg, conns, clock,
                    vaddr, vconn, nbuilt, enq, written, snap, returned, pend >>

\* Mutant of ViewerHandshake: the stream is stored without Connected being yielded.
ViewerHandshakeSilent ==
    /\ vst = "handshake"
    /\ IF Len(conns[vconn]) >= 1
       THEN IF conns[vconn][1] = WIRE_PROTOCOL_VERSION
            THEN /\ vst' = "connected"
                 /\ vpos' = 1
                 /\ items' = items
            ELSE /\ vst' = "connecting"
                 /\ vpos' = vpos
                 /\ items' = Append(items, ErrorItem("BadVersion"))
       ELSE /\ Closed(vconn)
            /\ vst' = "connecting"
            /\ UNCHANGED << vpos, items >>
    /\ UNCHANGED << codecVars, deq, regVars, pc, out, mailbox, flushed, mgr, listener, curr_msg, conns, clock,
                    vaddr, vconn, nbuilt, enq, written, snap, returned, pend >>

\* next() with stream None, after connect(): read the version byte.
ViewerHandshake ==
    /\ vst = "handshake"
    /\ IF Len(conns[vconn]) >= 1
       THEN IF conns[vconn][1] = WIRE_PROTOCOL_VERSION
            THEN /\ vst' = "connected"
                 /\ vpos' = 1
                 /\ items' = Append(items, Connected(vaddr))
            ELSE /\ vst' = "connecting"
                 /\ vpos' = vpos
                 /\ items' = Append(items, ErrorItem("BadVersion"))
       ELSE /\ Closed(vconn)
            /\ vst' = "connecting"
            /\ UNCHANGED << vpos, items >>
    /\ UNCHANGED << codecVars, deq, regVars, pc, out, mailbox, flushed, mgr, listener, curr_msg, conns, clock,
                    vaddr, vconn, nbuilt, enq, written, snap, returned, pend >>

\* The unread bytes of the connector's stream.
Unread == Drop(conns[vconn], vpos)

\* The frame body length next() takes from the four bytes it read.
FrameLen == U32FromBE(Take(Unread, LEN_FIELD_SIZE))

\* Both read_exact calls of next() can be served from the bytes on the stream.
FrameReadable == Len(Unread) >= LEN_FIELD_SIZE /\ Len(Unread) >= LEN_FIELD_SIZE + FrameLen

\* Mutant of ViewerNext: after a decoding error the stream is kept and the frame skipped.
ViewerNextSkipsFrame ==
    /\ vst = "connected"
    /\ IF FrameReadable
       THEN LET r == Message_from_buffer(
                        from_vec(SubSeq(Unread, LEN_FIELD_SIZE + 1, LEN_FIELD_SIZE + FrameLen)))
            IN  IF r.ok
                THEN /\ items' = Append(items, MessageEv(r.val))
                     /\ vpos' = vpos + LEN_FIELD_SIZE + FrameLen
                     /\ vst' = vst
                ELSE /\ items' = Append(items, ErrorItem(r.err))
                     /\ vst' = vst
                     /\ vpos' = vpos + LEN_FIELD_SIZE + FrameLen
       ELSE /\ Closed(vconn)
            /\ items' = Append(items, Disconnected(vaddr))
            /\ vst' = "connecting"
            /\ vpos' = vpos
    /\ UNCHANGED << codecVars, deq, regVars, pc, out, mailbox, flushed, mgr, listener, curr_msg, conns, clock,
                    vaddr, vconn, nbuilt, enq, written, snap, returned, pend >>

\* Mutant of ViewerNext: a frame cut short by the end of the stream is reported as corrupt.
ViewerNextDecodesPiece ==
    /\ vst = "connected"
    /\ IF FrameReadable
       THEN LET r == Message_from_buffer(
                        from_vec(SubSeq(Unread, LEN_FIELD_SIZE + 1, LEN_FIELD_SIZE + FrameLen)))
            IN  IF r.ok
                THEN /\ items' = Append(items, MessageEv(r.val))
                     /\ vpos' = vpos + LEN_FIELD_SIZE + FrameLen
                     /\ vst' = vst
                ELSE /\ items' = Append(items, ErrorItem(r.err))
                     /\ vst' = "connecting"
                     /\ vpos' = vpos
       ELSE /\ Closed(vconn)
            /\ items' = Append(items, ErrorItem("CorruptMsg"))
            /\ vst' = "connecting"
            /\ vpos' = vpos
    /\ UNCHANGED << codecVars, deq, regVars, pc, out, mailbox, flushed, mgr, listener, curr_msg, conns, clock,
                    vaddr, vconn, nbuilt, enq, written, snap, returned, pend >>

\* Mutant of ViewerNext: a failed read ends the iteration (next() returns None).
ViewerNextEnds ==
    /\ vst = "connected"
    /\ IF FrameReadable
       THEN LET r == Message_from_buffer(
                        from_vec(SubSeq(Unread, LEN_FIELD_SIZE + 1, LEN_FIELD_SIZE + FrameLen)))
            IN  IF r.ok
                THEN /\ items' = Append(items, MessageEv(r.val))
                     /\ vpos' = vpos + LEN_FIELD_SIZE + FrameLen
                     /\ vst' = vst
                ELSE /\ items' = Append(items, ErrorItem(r.err))
                     /\ vst' = "connecting"
                     /\ vpos' = vpos
       ELSE /\ Closed(vconn)
            /\ items' = items
            /\ vst' = "ended"
            /\ vpos' = vpos
    /\ UNCHANGED << codecVars, deq, regVars, pc, out, mailbox, flushed, mgr, listener, curr_msg, conns, clock,
                    vaddr, vconn, nbuilt, enq, written, snap, returned, pend >>

\* next() with a stream: read the length, read that many bytes, decode.
ViewerNext ==
    /\ vst = "connected"
    /\ IF FrameReadable
       THEN LET r == Message_from_buffer(
                        from_vec(SubSeq(Unread, LEN_FIELD_SIZE + 1, LEN_FIELD_SIZE + FrameLen)))
            IN  IF r.ok
                THEN /\ items' = Append(items, MessageEv(r.val))
                     /\ vpos' = vpos + LEN_FIELD_SIZE + FrameLen
                     /\ vst' = vst
                ELSE /\ items' = Append(items, ErrorItem(r.err))
                     /\ vst' = "connecting"
                     /\ vpos' = vpos
       ELSE /\ Closed(vconn)
            /\ items' = Append(items, Disconnected(vaddr))
            /\ vst' = "connecting"
            /\ vpos' = vpos
    /\ UNCHANGED << codecVars, deq, regVars, pc, out, mailbox, flushed, mgr, listener, curr_msg, conns, clock,
                    vaddr, vconn, nbuilt, enq, written, snap, returned, pend >>

(***************************************************************************)
(* The whole system: application threads, the manager, the connector and   *)
(* other TCP clients.                                                      *)
(***************************************************************************)
PendingFrame == IF curr_msg = None THEN <<>> ELSE curr_msg.frame

Next ==
    \/ \E t \in Threads, p \in Ports : FromPort(t, p)
    \/ \E t \in Threads, c \in Calls : nbuilt < MaxOps /\ SendCall(t, c)
    \/ \E t \in Threads : SendDone(t)
    \/ \E t \in Threads : nbuilt < MaxOps /\ FlushCall(t)
    \/ \E t \in Threads : FlushSend(t)
    \/ \E t \in Threads : FlushCheck(t)
    \/ \E t \in Threads : SpuriousWake(t)
    \/ \E ok \in BOOLEAN : Bind(ok)
    \/ AcceptErr
    \/ \E n \in 0..1, v \in BOOLEAN : Accept(n, v)
    \/ Recv
    \/ \E n \in WriteOutcomes(PendingFrame) : Write(n)
    \/ ViewerHandshake
    \/ ViewerNext

Spec == Init /\ [][Next]_vars

(***************************************************************************)
(* The producer process alone: application threads using the default       *)
(* handle, the manager, and TCP clients that connect to it.                *)
(***************************************************************************)
ProducerNext ==
    \/ \E t \in Producers : FromPort(t, DEFAULT_PORT)
    \/ \E t \in Producers, c \in Calls : nbuilt < MaxOps /\ SendCall(t, c)
    \/ \E t \in Producers : SendDone(t)
    \/ \E t \in Producers : nbuilt < MaxOps /\ FlushCall(t)
    \/ \E t \in Producers : FlushSend(t)
    \/ \E t \in Producers : FlushCheck(t)
    \/ \E t \in Producers : SpuriousWake(t)
    \/ \E ok \in BOOLEAN : Bind(ok)
    \/ AcceptErr
    \/ \E n \in 0..1 : Accept(n, FALSE)
    \/ Recv
    \/ \E n \in WriteOutcomes(PendingFrame) : Write(n)

ProducerSpec == Init /\ [][ProducerNext]_vars

(***************************************************************************)
(* The producer process with a manager thread that is scheduled: when it   *)
(* is about to bind, it eventually does, with either outcome.  Nothing     *)
(* obliges a client to connect or an application thread to make a call.    *)
(***************************************************************************)
ManagerFairness == WF_vars(\E ok \in BOOLEAN : Bind(ok))

ManagerSpec == Init /\ [][ProducerNext]_vars /\ ManagerFairness

(***************************************************************************)
(* The producer process while the clock advances: between the call that    *)
(* builds a message, its enqueue, its receipt by the manager and each      *)
(* write of it, any amount of time may pass.                               *)
(***************************************************************************)
ClockNext ==
    \/ ProducerNext
    \/ Tick

ClockSpec == Init /\ [][ClockNext]_vars

(***************************************************************************)
(* The codec alone: one Message::new call on arguments drawn from bounded  *)
(* sets, then Message::from_buffer on the bytes after the length prefix,   *)
(* as the tests deserialize_msg and deserialize_vals do.                   *)
(***************************************************************************)
Alphabet == {97, 98}
StrsUpTo(n) == UNION { [1..k -> Alphabet] : k \in 0..n }
Texts == StrsUpTo(MaxStrLen)
Pairs == { <<name, value>> : name \in {<<>>, <<120>>}, value \in StrsUpTo(1) }
CodecPayloads ==
    { [tag |-> "Message", msg |-> s] : s \in Texts }
    \cup { [tag |-> "Values", values |-> vs] : vs \in UNION { [1..k -> Pairs] : k \in 0..MaxVals } }
CodecTimes == { <<0, 1>>, <<399, 7>> }
CodecThreads == {1, 12}
CodecFiles == { <<>>, FileName, <<195, 169>> }
CodecLines == {0, 11, 70000}

Encode(time, thread, filename, line, payload) ==
    /\ cmsg = None
    /\ cmsg' = [time |-> time, thread |-> thread, filename |-> filename,
                line |-> line, payload |-> payload]
    /\ cframe' = MessageNew(time, thread, filename, line, payload)
    /\ UNCHANGED << regVars, pc, out, mailbox, flushed, mgr, listener, curr_msg, conns, clock,
                    viewVars, nbuilt, enq, written, snap, returned, pend, deq, cdec,
                    tid_arg, tid_ret >>

Decode ==
    /\ cframe # <<>>
    /\ cdec = None
    /\ cdec' = Message_from_buffer(from_vec(Drop(cframe, LEN_FIELD_SIZE)))
    /\ UNCHANGED << regVars, pc, out, mailbox, flushed, mgr, listener, curr_msg, conns, clock,
                    viewVars, nbuilt, enq, written, snap, returned, pend, deq, cmsg, cframe,
                    tid_arg, tid_ret >>

CodecNext ==
    \/ \E time \in CodecTimes, thread \in CodecThreads, filename \in CodecFiles,
          line \in CodecLines, payload \in CodecPayloads :
            Encode(time, thread, filename, line, payload)
    \/ Decode

CodecSpec == Init /\ [][CodecNext]_vars

(***************************************************************************)
(* C1: in every frame Message::new builds, the leading u32 equals the      *)
(* number of bytes that follow it, so that reading the four length bytes   *)
(* and then that many bytes (MsgIterator::next) takes exactly the frame.   *)
(***************************************************************************)
C1_LengthCountsWhatFollows ==
    cframe # <<>> =>
        /\ U32FromBE(Take(cframe, LEN_FIELD_SIZE)) = Len(cframe) - LEN_FIELD_SIZE
        /\ LEN_FIELD_SIZE + U32FromBE(Take(cframe, LEN_FIELD_SIZE)) = Len(cframe)

(***************************************************************************)
(* C2: end to end.  When the messages m1..mn have been enqueued and        *)
(* written on one connection that stays up, with the connector as its peer,*)
(* and the connector has yielded all it can, the items are Connected       *)
(* followed by exactly n Message items, the i-th decoding to mi: the last  *)
(* message included, and no error or Disconnected item.                    *)
(***************************************************************************)
MsgsOf(events) == SelectSeq(events, LAMBDA e : e.kind = "NewMessage")

\* Every built event is enqueued and handled: nothing is left for the manager to write.
AllWritten ==
    /\ \A t \in Threads : pc[t] \in {"idle", "flush_check", "flush_wait"}
    /\ mailbox = <<>>
    /\ curr_msg = None

\* The connector's next() is blocked reading: it has yielded all it can.
ViewerBlocked == vst = "connected" /\ ~FrameReadable /\ ~Closed(vconn)

C2_EndToEnd ==
    ( /\ Len(conns) = 1
      /\ vconn = 1
      /\ mgr = "serve"
      /\ AllWritten
      /\ ViewerBlocked )
    => items = <<Connected(vaddr)>>
               \o [i \in 1..Len(MsgsOf(enq)) |-> MessageEv(MsgsOf(enq)[i].src)]

(***************************************************************************)
(* Threads sending and flushing on handles of one manager while a client   *)
(* is connected and every bind, accept and write succeeds.  The manager's  *)
(* steps and the steps that continue a call already made are weakly fair:  *)
(* a running thread is eventually scheduled.  Nothing obliges a thread to  *)
(* make a call, nor a condition variable to wake without a notification.   *)
(***************************************************************************)
FlushNext ==
    \/ \E t \in Threads : FromPort(t, DEFAULT_PORT)
    \/ \E t \in Threads, c \in Calls : nbuilt < MaxFlushOps /\ SendCall(t, c)
    \/ \E t \in Threads : SendDone(t)
    \/ \E t \in Threads : nbuilt < MaxFlushOps /\ FlushCall(t)
    \/ \E t \in Threads : FlushSend(t)
    \/ \E t \in Threads : FlushCheck(t)
    \/ \E t \in Threads : SpuriousWake(t)
    \/ Bind(TRUE)
    \/ Accept(1, FALSE)
    \/ Recv
    \/ Write(Len(PendingFrame))

FlushFairness ==
    /\ WF_vars(Bind(TRUE))
    /\ WF_vars(Accept(1, FALSE))
    /\ WF_vars(Recv)
    /\ WF_vars(Write(Len(PendingFrame)))
    /\ \A t \in Threads : WF_vars(SendDone(t))
    /\ \A t \in Threads : WF_vars(FlushSend(t))
    /\ \A t \in Threads : WF_vars(FlushCheck(t))

FlushSpec == Init /\ [][FlushNext]_vars /\ FlushFairness

(***************************************************************************)
(* The mailbox under load: one thread that only calls send_message, more   *)
(* often than the mailbox has room for; the other threads flush once it is *)
(* nearly full; clients connect or not, and writes succeed or fail.  The manager's steps and    *)
(* the completion of a call already made are weakly fair; nothing obliges  *)
(* a client to connect.                                                    *)
(***************************************************************************)
Sender == 1
MailboxCalls == { c \in Calls : c.payload = Hello }
Markers == Len(enq) - Len(MsgsOf(enq))

MailboxNext ==
    \/ \E t \in Threads : FromPort(t, DEFAULT_PORT)
    \/ \E c \in MailboxCalls :
          nbuilt < CHAN_MAX_MESSAGES + Overfill /\ SendCall(Sender, c)
    \/ \E t \in Threads : SendDone(t)
    \/ \E t \in Threads \ {Sender} :
          /\ nbuilt < CHAN_MAX_MESSAGES + Overfill
          /\ Markers < MaxMarkers
          /\ \A u \in Threads : pc[u] # "flush_send"
          /\ Len(mailbox) >= CHAN_MAX_MESSAGES - 1
          /\ FlushCall(t)
    \/ \E t \in Threads : FlushSend(t)
    \/ \E t \in Threads : FlushCheck(t)
    \/ Bind(TRUE)
    \/ Accept(1, FALSE)
    \/ Recv
    \/ \E n \in {0, Len(PendingFrame)} : Write(n)

MailboxFairness ==
    /\ WF_vars(Bind(TRUE))
    /\ WF_vars(Recv)
    /\ WF_vars(\E n \in {0, Len(PendingFrame)} : Write(n))
    /\ \A t \in Threads : WF_vars(SendDone(t))
    /\ \A t \in Threads : WF_vars(FlushSend(t))
    /\ \A t \in Threads : WF_vars(FlushCheck(t))

MailboxSpec == Init /\ [][MailboxNext]_vars /\ MailboxFairness

(***************************************************************************)
(* The registry: threads asking for handles with any port, in any order,   *)
(* and using them, while the clock advances.                               *)
(***************************************************************************)
RegistryNext ==
    \/ \E t \in Threads, p \in Ports : FromPort(t, p)
    \/ \E t \in Threads, c \in Calls : nbuilt < MaxOps /\ SendCall(t, c)
    \/ \E t \in Threads : SendDone(t)
    \/ \E t \in Threads : nbuilt < MaxOps /\ FlushCall(t)
    \/ \E t \in Threads : FlushSend(t)
    \/ \E t \in Threads : FlushCheck(t)
    \/ \E ok \in BOOLEAN : Bind(ok)
    \/ Tick

RegistrySpec == Init /\ [][RegistryNext]_vars

(***************************************************************************)
(* The connector against any server listening at its address, not only an  *)
(* rdbg manager: the server (kept in mgr and conns) answers a connection   *)
(* with any first byte or none, writes well-formed frames, damaged frames  *)
(* and pieces of frames, and closes the connection when it likes.  The     *)
(* connector's reads block until the bytes they ask for are there or the   *)
(* connection is closed, so when the bytes arrive makes no difference.     *)
(***************************************************************************)
PeerBody == Drop(MessageNew(<<0, 1>>, 1, FileName, 11, XIs1), LEN_FIELD_SIZE)
FileNameAt == 8 + required_str_capacity(current_thread(1)) + 4 + 1
TagAt == 8 + required_str_capacity(current_thread(1)) + required_str_capacity(FileName) + 4 + 1

\* A frame as next() reads it: a length, then that many bytes.
Framed(body) == U32BE(Len(body)) \o body

GoodFrame == Framed(PeerBody)
BadUtf8Frame == Framed([PeerBody EXCEPT ![FileNameAt] = 255])
BadTagFrame == Framed([PeerBody EXCEPT ![TagAt] = 9])
ShortFrame == Framed(Take(PeerBody, TagAt))
PeerFrames == {GoodFrame, BadUtf8Frame, BadTagFrame, ShortFrame}

PeerChunks == PeerFrames \cup { Take(GoodFrame, k) : k \in {2, LEN_FIELD_SIZE + 3} }
PeerHandshakes == { <<>>, <<WIRE_PROTOCOL_VERSION>>, <<2>> }

\* All a server writes on one connection: a first byte or none, then up to MaxChunks chunks.
PeerScripts ==
    { h \o Flatten(cs) : h \in PeerHandshakes,
                         cs \in UNION { [1..k -> PeerChunks] : k \in 0..MaxChunks } }

\* A server starts listening at the connector's address.
PeerListen ==
    /\ mgr = "unborn"
    /\ mgr' = "listen"
    /\ listener' = "bound"
    /\ managers' = <<vaddr>>
    /\ UNCHANGED << codecVars, deq, registry, handle, firstPort, asked, pc, out, mailbox, flushed,
                    curr_msg, conns, clock, viewVars, nbuilt, enq, written, snap, returned, pend >>

\* TcpStream::connect succeeds; h is all the server will write on the new connection.
PeerAccept(h) ==
    /\ mgr = "listen"
    /\ Reaches
    /\ Len(conns) < MaxConns
    /\ conns' = Append(conns, h)
    /\ pend' = Append(pend, None)
    /\ mgr' = "serve"
    /\ vst' = "handshake"
    /\ vconn' = Len(conns) + 1
    /\ UNCHANGED << codecVars, deq, regVars, pc, out, mailbox, flushed, listener, curr_msg, clock,
                    vaddr, vpos, items, nbuilt, enq, written, snap, returned >>

\* The server closes the connection.
PeerClose ==
    /\ mgr = "serve"
    /\ mgr' = "listen"
    /\ UNCHANGED << codecVars, deq, regVars, pc, out, mailbox, flushed, listener, curr_msg, conns,
                    clock, viewVars, nbuilt, enq, written, snap, returned, pend >>

ConnectorNext ==
    \/ PeerListen
    \/ \E h \in PeerScripts : PeerAccept(h)
    \/ PeerClose
    \/ ViewerHandshake
    \/ ViewerNext

ConnectorSpec == Init /\ [][ConnectorNext]_vars

(***************************************************************************)
(* Thread ids alone: one parse_thread_id call on a text drawn from the     *)
(* renderings of thread ids and from texts near them: the prefix, a        *)
(* shorter one or none, followed by any few parentheses and digits.        *)
(***************************************************************************)
TailChars == {40, 41, 49}                                  \* "(", ")", "1"
Tails == UNION { [1..k -> TailChars] : k \in 0..MaxTail }
Heads == { THREAD_ID_PREFIX, Take(THREAD_ID_PREFIX, 6), <<>> }
ThreadIdTexts ==
    { head \o tail : head \in Heads, tail \in Tails }
    \cup { ThreadIdDebug(n) : n \in CodecThreads }

Text(s) == [text |-> s]

\* parse_thread_id is called.
ParseCall(s) ==
    /\ tid_arg = None
    /\ tid_arg' = Text(s)
    /\ UNCHANGED << regVars, pc, out, mailbox, flushed, mgr, listener, curr_msg, conns, clock,
                    viewVars, nbuilt, enq, written, snap, returned, pend, deq, cmsg, cframe,
                    cdec, tid_ret >>

\* It returns.
ParseReturn ==
    /\ tid_arg # None
    /\ tid_ret = None
    /\ tid_ret' = Text(parse_thread_id(tid_arg.text))
    /\ UNCHANGED << regVars, pc, out, mailbox, flushed, mgr, listener, curr_msg, conns, clock,
                    viewVars, nbuilt, enq, written, snap, returned, pend, deq, cmsg, cframe,
                    cdec, tid_arg >>

ThreadIdNext ==
    \/ \E s \in ThreadIdTexts : ParseCall(s)
    \/ ParseReturn

ThreadIdSpec == Init /\ [][ThreadIdNext]_vars

(***************************************************************************)
(* Decoding any buffer: Message::from_buffer applied to the bodies of      *)
(* well-formed messages, to every truncation of them, to every one of      *)
(* their bytes overwritten, and to them with bytes appended.  Before its   *)
(* loop MsgPayload::from_buffer asks the allocator for room for as many    *)
(* pairs as the buffer declares; a request that large may be refused, and  *)
(* a refused allocation aborts the process.                                *)
(***************************************************************************)
DecodeBodies ==
    { Drop(MessageNew(<<0, 1>>, 1, FileName, 11, payload), LEN_FIELD_SIZE) :
        payload \in {Hello, XIs1, [tag |-> "Values", values |-> <<>>]} }

\* Bytes written over a byte of a body: an unknown tag, a huge length, a byte no UTF-8 has.
Overwrites == {9, 127, 255}

\* The u32 and u64 fields of the model stay below 2^31: 255 is not written over the
\* first byte of a 4-byte group that may be read as a number.
Overwritten(body) ==
    UNION { { [body EXCEPT ![i] = b] : b \in { v \in Overwrites : v = 255 => body[i] # 0 } }
            : i \in 1..Len(body) }

DecodeBuffers ==
    UNION { { Take(body, k) : k \in 0..Len(body) }
            \cup Overwritten(body)
            \cup { body \o <<0>>, body \o body }
            : body \in DecodeBodies }

Aborted == [aborted |-> TRUE]

\* size_of::<(String, String)>() on a 64-bit target
PairSize == 48

\* The pair count MsgPayload::from_buffer passes to Vec::with_capacity, or None when
\* decoding does not get that far.
DeclaredPairs(buffer) ==
    Only({ IF ~time.ok THEN None ELSE
    Only({ IF ~thread_id.ok THEN None ELSE
    Only({ IF ~filename.ok THEN None ELSE
    Only({ IF ~line.ok THEN None ELSE
    Only({ IF ~tag.ok \/ MsgPayloadVal_try_from(IF tag.ok THEN tag.val ELSE 0) # "Values"
           THEN None
           ELSE Only({ IF len.ok THEN len ELSE None : len \in {read_u32(tag.bb)} })
         : tag \in {read_u8(line.bb)} })
         : line \in {read_u32(filename.bb)} })
         : filename \in {read_str(thread_id.bb)} })
         : thread_id \in {read_str(time.bb)} })
         : time \in {read_u64(from_vec(buffer))} })

\* Vec::with_capacity(n) for pairs: it returns, or the allocation fails and the process aborts.
with_capacity(n) == IF n <= SureAlloc \div PairSize THEN {"ok"} ELSE {"ok", "abort"}

\* A buffer is handed to Message::from_buffer.
Arrive(buffer) ==
    /\ cframe = <<>>
    /\ cdec = None
    /\ buffer # <<>>
    /\ cframe' = buffer
    /\ UNCHANGED << regVars, pc, out, mailbox, flushed, mgr, listener, curr_msg, conns, clock,
                    viewVars, nbuilt, enq, written, snap, returned, pend, deq, cmsg, cdec,
                    tid_arg, tid_ret >>

\* Message::from_buffer runs on it.
DecodeBuffer(alloc) ==
    /\ cframe # <<>>
    /\ cdec = None
    /\ alloc \in (IF DeclaredPairs(cframe) = None THEN {"ok"}
                  ELSE with_capacity(DeclaredPairs(cframe).val))
    /\ cdec' = IF alloc = "abort" THEN Aborted ELSE Message_from_buffer(from_vec(cframe))
    /\ UNCHANGED << regVars, pc, out, mailbox, flushed, mgr, listener, curr_msg, conns, clock,
                    viewVars, nbuilt, enq, written, snap, returned, pend, deq, cmsg, cframe,
                    tid_arg, tid_ret >>

DecodeNext ==
    \/ \E buffer \in DecodeBuffers : Arrive(buffer)
    \/ \E alloc \in {"ok", "abort"} : DecodeBuffer(alloc)

DecodeSpec == Init /\ [][DecodeNext]_vars

(***************************************************************************)
(* Delivery: the producer while clients keep connecting.  Accepts,         *)
(* handshakes and writes may fail any number of times, but not forever:    *)
(* the successful accept and the successful write are strongly fair, the   *)
(* manager's other steps and the completion of a send weakly fair.  The    *)
(* record of connections that are over is dropped when it is full, so that *)
(* connections can go on being accepted.                                   *)
(***************************************************************************)
Recycle ==
    /\ mgr \in {"bind", "listen"}
    /\ Len(conns) = MaxConns
    /\ conns' = <<>>
    /\ pend' = <<>>
    /\ UNCHANGED << codecVars, deq, regVars, pc, out, mailbox, flushed, mgr, listener, curr_msg, clock,
                    viewVars, nbuilt, enq, written, snap, returned >>

DeliveryNext ==
    \/ \E t \in Producers : FromPort(t, DEFAULT_PORT)
    \/ \E t \in Producers, c \in Calls : nbuilt < MaxOps /\ SendCall(t, c)
    \/ \E t \in Producers : SendDone(t)
    \/ Bind(TRUE)
    \/ AcceptErr
    \/ \E n \in 0..1 : Accept(n, FALSE)
    \/ Recv
    \/ \E n \in WriteOutcomes(PendingFrame) : Write(n)
    \/ Recycle

DeliveryFairness ==
    /\ WF_vars(Bind(TRUE))
    /\ SF_vars(Accept(1, FALSE))
    /\ WF_vars(Recv)
    /\ SF_vars(Write(Len(PendingFrame)))
    /\ WF_vars(Recycle)
    /\ \A t \in Producers : WF_vars(SendDone(t))

DeliverySpec == Init /\ [][DeliveryNext]_vars /\ DeliveryFairness

(***************************************************************************)
(* C3: the messages whose write completed are, in order, a prefix of the   *)
(* messages in the order they entered the mailbox: none skipped, reordered *)
(* or completely written twice; and a pending message is the next one in   *)
(* that order, ahead of everything still in the mailbox.                   *)
(***************************************************************************)
IdsOf(events) == [i \in 1..Len(MsgsOf(events)) |-> MsgsOf(events)[i].id]

C3_WrittenIsPrefix ==
    /\ IsPrefix(written, IdsOf(enq))
    /\ curr_msg # None =>
          /\ Len(written) < Len(IdsOf(enq))
          /\ curr_msg.id = IdsOf(enq)[Len(written) + 1]
          /\ \A i \in 1..Len(mailbox) : mailbox[i].id # curr_msg.id

\* Two messages were written, the second on a later connection than the one on which
\* a write of it had failed.
C3_Witness ==
    /\ Len(written) = 2
    /\ Len(conns) = 2
    /\ pend[2] # None
    /\ conns[2] = <<WIRE_PROTOCOL_VERSION>> \o pend[2].frame

(***************************************************************************)
(* C4: when a write of a frame fails, after any number of its bytes, the   *)
(* message stays the manager's pending message and the mailbox is left as  *)
(* it was; nothing is taken from the mailbox while a message is pending;   *)
(* and what is written on a connection accepted with a message pending is  *)
(* the handshake byte and then that frame from its first byte.             *)
(***************************************************************************)
WriteFailed == mgr = "serve" /\ curr_msg # None /\ mgr' = "bind"

C4_Step ==
    /\ WriteFailed => curr_msg' = curr_msg /\ Len(mailbox') >= Len(mailbox)
    /\ curr_msg # None => Len(deq') = Len(deq)

C4_Resent ==
    \A c \in 1..Len(conns) :
        pend[c] # None =>
            LET whole == <<WIRE_PROTOCOL_VERSION>> \o pend[c].frame IN
            /\ IsPrefix(conns[c], whole) \/ IsPrefix(whole, conns[c])
            /\ (mgr = "serve" /\ c = Len(conns) /\ ~IsPrefix(whole, conns[c]))
                  => curr_msg = pend[c]

C4_PendingResentFirst == []C4_Resent /\ [][C4_Step]_vars

\* A write failed part-way on the first connection and the second connection carries
\* the handshake byte and the whole frame.
C4_Witness ==
    /\ Len(conns) = 2
    /\ Len(conns[1]) > 1
    /\ pend[2] # None
    /\ conns[2] = <<WIRE_PROTOCOL_VERSION>> \o pend[2].frame
    /\ ~IsPrefix(pend[2].frame, Drop(conns[1], 1))

(***************************************************************************)
(* C7: a flush() returns, and the flushed flag is raised, only after a     *)
(* connection was accepted and its handshake written: with no accepted     *)
(* connection no flush() returns, and the flag is raised only by a step of *)
(* the loop that services a connection.                                    *)
(***************************************************************************)
Serviced == \E c \in 1..Len(conns) : Len(conns[c]) >= 1

C7_State == (returned # <<>> \/ flushed \/ deq # <<>>) => Serviced

C7_Raise == (~flushed /\ flushed') => (mgr = "serve" /\ mgr' = "serve")

C7_NoFlushWithoutConnection == []C7_State /\ [][C7_Raise]_vars

\* A flush() that was called before any connection existed returned once one was served.
C7_Witness == returned # <<>> /\ Len(conns) = 1 /\ written # <<>>

(***************************************************************************)
(* C5: under every interleaving of threads sending and flushing on handles *)
(* of one manager, a flush() returns only when every message whose enqueue *)
(* had completed before that flush() was called has been completely        *)
(* written to a connection.                                                *)
(***************************************************************************)
C5_FlushWaitsForEarlierMessages ==
    \A i \in 1..Len(returned) : returned[i][1] \subseteq returned[i][2]

(***************************************************************************)
(* C6: with a client connected and writes succeeding, every flush() that   *)
(* was called eventually returns, also when several threads flush at once. *)
(***************************************************************************)
InFlush(t) == pc[t] \in {"flush_send", "flush_check", "flush_wait"}

C6_EveryFlushReturns == \A t \in Threads : InFlush(t) ~> (pc[t] = "idle")

(***************************************************************************)
(* C8: the mailbox never holds more than CHAN_MAX_MESSAGES entries,        *)
(* messages and flush markers together; an enqueue attempted while it is   *)
(* full completes only after the manager has removed an entry; and every   *)
(* entry accepted is either still in the mailbox or was removed by the     *)
(* manager, in the order accepted.                                         *)
(***************************************************************************)
C8_State ==
    /\ Len(mailbox) <= CHAN_MAX_MESSAGES
    /\ enq = deq \o mailbox

C8_Step ==
    /\ Len(mailbox) = CHAN_MAX_MESSAGES => enq' = enq
    /\ Len(mailbox') < Len(mailbox) => deq' = Append(deq, Head(mailbox))

C8_BoundedMailbox == []C8_State /\ [][C8_Step]_vars

\* The mailbox is full again, with a flush marker in it, after an enqueue that had
\* found it full completed.
C8_Witness ==
    /\ Len(mailbox) = CHAN_MAX_MESSAGES
    /\ Len(enq) > CHAN_MAX_MESSAGES
    /\ \E i \in 1..Len(mailbox) : mailbox[i].kind = "Flush"
    /\ pc[Sender] = "send"

(***************************************************************************)
(* C9: a thread that only calls send_message is never blocked by transport *)
(* trouble: every send_message call it makes returns, whether or not a     *)
(* client ever connects or a connection has failed.                        *)
(***************************************************************************)
C9_SendAlwaysReturns == (pc[Sender] = "send") ~> (pc[Sender] = "idle")

(***************************************************************************)
(* C9, amended: a send_message call waits only while the mailbox holds     *)
(* CHAN_MAX_MESSAGES entries; with fewer waiting it can complete at once,  *)
(* connection or not.                                                      *)
(***************************************************************************)
Blocked(t) == pc[t] = "send" /\ ~ENABLED SendDone(t)

C9_BlockedOnlyWhenFull ==
    \A t \in Threads :
        /\ Blocked(t) => Len(enq) - Len(deq) = CHAN_MAX_MESSAGES
        /\ (pc[t] = "send" /\ Len(enq) < CHAN_MAX_MESSAGES) => ENABLED SendDone(t)

\* No connection was ever accepted, CHAN_MAX_MESSAGES calls returned and the next waits.
C9_Witness ==
    /\ conns = <<>>
    /\ Len(MsgsOf(enq)) = CHAN_MAX_MESSAGES
    /\ Blocked(Sender)

(***************************************************************************)
(* C10: whatever ports the threads pass and in whatever order their calls  *)
(* run, one manager and one mailbox are created, for the port of the call  *)
(* that ran first; every handle is a handle on that manager; and once the  *)
(* manager exists no call replaces it or changes its port.                 *)
(***************************************************************************)
C10_State ==
    /\ managers = IF firstPort = 0 THEN <<>> ELSE <<firstPort>>
    /\ registry = Len(managers)
    /\ \A t \in Threads : handle[t] \in {0, registry}

C10_Step == registry # 0 => UNCHANGED << registry, managers, firstPort >>

C10_OneManager == []C10_State /\ [][C10_Step]_vars

\* Two threads asked for different ports, the first of them not the default one, and
\* both have enqueued on the handle they got.
C10_Witness ==
    /\ firstPort # DEFAULT_PORT
    /\ managers = <<firstPort>>
    /\ \E t, u \in Threads :
          /\ asked[t] = firstPort
          /\ asked[u] \notin {0, firstPort}
          /\ handle[t] = handle[u]
          /\ \E i, j \in 1..Len(enq) :
                /\ enq[i].kind = "NewMessage" /\ enq[i].src.thread_id = current_thread(t)
                /\ enq[j].kind = "Flush" /\ pc[u] \in {"flush_check", "flush_wait"}

(***************************************************************************)
(* C11: every connection the manager wrote on starts with one handshake    *)
(* byte of value 1, written when the connection is accepted; what follows  *)
(* it is whole frames of consecutive messages, the last one possibly cut,  *)
(* starting with the pending frame if there was one: no second handshake   *)
(* byte, and none between frames.                                          *)
(***************************************************************************)
FramesFrom(i) ==
    Flatten([k \in 1..(Len(MsgsOf(enq)) - i + 1) |-> MsgsOf(enq)[i + k - 1].frame])

PendingIndex(c) == CHOOSE i \in 1..Len(MsgsOf(enq)) : MsgsOf(enq)[i].id = pend[c].id

C11_State ==
    \A c \in 1..Len(conns) :
        conns[c] # <<>> =>
            /\ conns[c][1] = 1
            /\ \E i \in 1..(Len(MsgsOf(enq)) + 1) : IsPrefix(Drop(conns[c], 1), FramesFrom(i))
            /\ pend[c] # None => IsPrefix(Drop(conns[c], 1), FramesFrom(PendingIndex(c)))

C11_Step ==
    /\ Len(conns') >= Len(conns)
    /\ \A c \in 1..Len(conns) :
          /\ IsPrefix(conns[c], conns'[c])
          /\ conns[c] = <<>> => conns'[c] = <<>>
    /\ \A c \in (Len(conns) + 1)..Len(conns') : conns'[c] \in {<<>>, <<1>>}

C11_HandshakeFirst == []C11_State /\ [][C11_Step]_vars

\* The second connection carries the handshake byte, the frame that was pending when
\* it was accepted, and the next frame.
C11_Witness ==
    /\ Len(conns) = 2
    /\ pend[2] # None
    /\ Len(MsgsOf(enq)) = 2
    /\ conns[2] = <<1>> \o FramesFrom(1)

(***************************************************************************)
(* C12: when the first byte read on a new connection is not 1, that pull   *)
(* yields BadVersion and leaves the connector without a connection; it     *)
(* never reads from that connection again: the next thing it reads is the  *)
(* first byte of a newer connection.                                       *)
(***************************************************************************)
LastItem == items[Len(items)]

C12_Yield ==
    (vst = "handshake" /\ conns[vconn] # <<>> /\ conns[vconn][1] # 1 /\ viewVars' # viewVars)
        => /\ items' = Append(items, ErrorItem("BadVersion"))
           /\ vst' = "connecting"

C12_NoMoreReads ==
    vst = "connecting" =>
        \/ vst' = "connecting" /\ vconn' = vconn /\ vpos' = vpos /\ items' = items
        \/ vst' = "handshake" /\ vconn' > vconn

C12_AfterBadVersion ==
    (items # <<>> /\ LastItem = ErrorItem("BadVersion")) => vst \in {"connecting", "handshake"}

C12_BadVersion == []C12_AfterBadVersion /\ [][C12_Yield /\ C12_NoMoreReads]_vars

\* BadVersion on the first connection, which had more bytes to read, then Connected on
\* the second.
C12_Witness ==
    /\ Len(items) = 2
    /\ items[1] = ErrorItem("BadVersion")
    /\ items[2] = Connected(vaddr)
    /\ vconn = 2
    /\ Len(conns[1]) > 1

(***************************************************************************)
(* C13: the connector's sequence never ends.  A pull made with a stream    *)
(* returns exactly one item; a pull made without one returns exactly one   *)
(* item (Connected or BadVersion) once a first byte was read and otherwise *)
(* goes on connecting; and after every item the connector is connected or  *)
(* connecting, never finished.                                             *)
(***************************************************************************)
ViewerStep == viewVars' # viewVars

C13_State ==
    /\ vst \in {"connecting", "handshake", "connected"}
    /\ (vst = "connected" /\ ~ENABLED ViewerNext) => (~FrameReadable /\ ~Closed(vconn))

C13_Step ==
    /\ IsPrefix(items, items')
    /\ (vst = "connected" /\ ViewerStep) => Len(items') = Len(items) + 1
    /\ (vst = "handshake" /\ ViewerStep) =>
          IF conns[vconn] # <<>>
          THEN /\ Len(items') = Len(items) + 1
               /\ items'[Len(items')] \in {Connected(vaddr), ErrorItem("BadVersion")}
          ELSE items' = items /\ vst' = "connecting"
    /\ vst = "connecting" => items' = items

C13_NeverEnds == []C13_State /\ [][C13_Step]_vars

\* After an error item the connector connected again and yielded a message.
C13_Witness ==
    \E i \in 1..Len(items) :
        /\ items[i].ev = "Error"
        /\ i + 2 <= Len(items)
        /\ items[i + 1] = Connected(vaddr)
        /\ items[i + 2].ev = "Message"

(***************************************************************************)
(* C14: when the frame read in full does not decode, the pull yields the   *)
(* decoder's error (BadUtf8 for a string that is not UTF-8, CorruptMsg for *)
(* an unknown tag or a body that is too short), the connector drops its    *)
(* connection and reads nothing more from it, and the next pull connects   *)
(* anew.                                                                   *)
(***************************************************************************)
FrameBody == SubSeq(Unread, LEN_FIELD_SIZE + 1, LEN_FIELD_SIZE + FrameLen)
DecodeFails == vst = "connected" /\ FrameReadable /\ ~Message_from_buffer(from_vec(FrameBody)).ok

C14_Yield ==
    (DecodeFails /\ ViewerStep) =>
        /\ Len(items') = Len(items) + 1
        /\ items'[Len(items')] = ErrorItem(Message_from_buffer(from_vec(FrameBody)).err)
        /\ items'[Len(items')].err \in {"BadUtf8", "CorruptMsg"}
        /\ Framed(FrameBody) = BadUtf8Frame => items'[Len(items')].err = "BadUtf8"
        /\ Framed(FrameBody) \in {BadTagFrame, ShortFrame} => items'[Len(items')].err = "CorruptMsg"
        /\ vst' = "connecting"

C14_AfterError ==
    (items # <<>> /\ LastItem \in {ErrorItem("BadUtf8"), ErrorItem("CorruptMsg")})
        => vst \in {"connecting", "handshake"}

C14_DecodeError == []C14_AfterError /\ [][C14_Yield /\ C12_NoMoreReads]_vars

\* BadUtf8 on the first connection, which had bytes left to read, and CorruptMsg on the
\* second, each after Connected.
C14_Witness ==
    /\ items = << Connected(vaddr), ErrorItem("BadUtf8"), Connected(vaddr), ErrorItem("CorruptMsg") >>
    /\ Len(conns[1]) > 1 + Len(BadUtf8Frame)
    /\ vst = "connecting"

(***************************************************************************)
(* C15: while connected, when the stream ends before the four length bytes *)
(* or before the whole frame body could be read, the pull yields           *)
(* Disconnected with the connector's configured address, and nothing else, *)
(* and the next pull connects anew; while the stream is open the pull      *)
(* waits.                                                                  *)
(***************************************************************************)
ReadFails == vst = "connected" /\ ~FrameReadable

C15_Yield ==
    /\ vaddr' = vaddr
    /\ (ReadFails /\ ViewerStep) =>
          /\ Closed(vconn)
          /\ items' = Append(items, Disconnected(vaddr))
          /\ vst' = "connecting"

C15_AfterDisconnected ==
    /\ vaddr = DEFAULT_PORT
    /\ (items # <<>> /\ LastItem = Disconnected(vaddr)) => vst \in {"connecting", "handshake"}

C15_ReadError == []C15_AfterDisconnected /\ [][C15_Yield /\ C12_NoMoreReads]_vars

\* A message, then the stream ended three bytes into the body of the next frame.
C15_Witness ==
    /\ items = << Connected(vaddr), MessageEv(Message_from_buffer(from_vec(PeerBody)).val),
                  Disconnected(vaddr) >>
    /\ Len(conns[1]) = 1 + Len(GoodFrame) + LEN_FIELD_SIZE + 3
    /\ vst = "connecting"

(***************************************************************************)
(* C16: decoding any buffer ends with a Message or an error, having used   *)
(* no length before checking it against the bytes that remain: a declared  *)
(* pair count larger than the bytes that remain yields CorruptMsg, and so  *)
(* does a payload tag other than 1 or 2.                                   *)
(***************************************************************************)
Remaining(r) == Len(cframe) - r.bb.idx

TagOf(buffer) ==
    Only({ IF ~time.ok THEN None ELSE
    Only({ IF ~thread_id.ok THEN None ELSE
    Only({ IF ~filename.ok THEN None ELSE
    Only({ IF ~line.ok THEN None ELSE
    Only({ IF tag.ok THEN tag ELSE None : tag \in {read_u8(line.bb)} })
         : line \in {read_u32(filename.bb)} })
         : filename \in {read_str(thread_id.bb)} })
         : thread_id \in {read_str(time.bb)} })
         : time \in {read_u64(from_vec(buffer))} })

C16_CheckedDecoding ==
    cdec # None =>
        /\ cdec # Aborted
        /\ (DeclaredPairs(cframe) # None
              /\ DeclaredPairs(cframe).val > Remaining(DeclaredPairs(cframe)))
             => cdec = Err("CorruptMsg")
        /\ (TagOf(cframe) # None /\ TagOf(cframe).val \notin {1, 2}) => cdec = Err("CorruptMsg")

(***************************************************************************)
(* C17: a buffer whose length does not agree with the fields in it is      *)
(* reported as CorruptMsg: a Message is decoded only from a buffer that    *)
(* its fields fill exactly, not from a well-formed message followed by     *)
(* more bytes.                                                             *)
(***************************************************************************)
C17_InconsistentLength ==
    (cdec # None /\ cdec # Aborted) =>
        IF cdec.ok THEN cdec.bb.idx = Len(cframe)
        ELSE cdec.err \in {"CorruptMsg", "BadUtf8"}

(***************************************************************************)
(* C18: round trip.  Decoding the bytes that follow the length prefix of   *)
(* an encoded message yields a Message with the same time, thread id, file *)
(* name, line and payload, the name/value pairs in the order given.        *)
(***************************************************************************)
C18_RoundTrip ==
    cdec # None =>
        /\ cdec.ok
        /\ cdec.val = [time |-> cmsg.time, thread_id |-> current_thread(cmsg.thread),
                       filename |-> cmsg.filename, line |-> cmsg.line,
                       payload |-> cmsg.payload]

\* A list with the same name twice, different values, an empty name and an empty value
\* among the inputs decoded.
C18_Witness ==
    /\ cdec # None
    /\ cdec.ok
    /\ cmsg.payload = [tag |-> "Values", values |-> << <<(<<120>>), (<<98>>)>>, <<(<<120>>), (<<>>)>> >>]
    /\ cdec.val.payload.values[1][2] = <<98>>
    /\ cmsg.filename = <<195, 169>>

(***************************************************************************)
(* C19: no message accepted into the mailbox is dropped.  While clients    *)
(* keep connecting and writes do not fail forever, every message whose     *)
(* enqueue completed is eventually written completely, and the step that   *)
(* completes it puts the whole frame, first byte to last, on one           *)
(* connection.                                                             *)
(***************************************************************************)
Enqueued(k) == \E i \in 1..Len(enq) : enq[i].kind = "NewMessage" /\ enq[i].id = k

C19_WholeFrame ==
    written' # written =>
        /\ curr_msg # None
        /\ written' = Append(written, curr_msg.id)
        /\ Enqueued(curr_msg.id)
        /\ conns' = [conns EXCEPT ![Len(conns)] = @ \o curr_msg.frame]

C20_State ==
    /\ listener = "failed" => mgr = "exited"
    /\ mgr \in {"listen", "serve"} => listener = "bound"
    /\ mgr = "exited" => listener = "failed"

C20_Step ==
    mgr = "exited" =>
        UNCHANGED << mgr, listener, registry, managers, handle, pc, out, mailbox, flushed,
                     curr_msg, conns, enq, deq, written, returned >>

C20_BindFailureExits == []C20_State /\ [][C20_Step]_vars

\* A bind after a connection had ended failed, with a message pending and a thread
\* inside a call.
C20_Witness ==
    /\ mgr = "exited"
    /\ listener = "failed"
    /\ conns # <<>>
    /\ curr_msg # None
    /\ \E t \in Producers : pc[t] # "idle"

(***************************************************************************)
(* C21: the manager goes round listening -> connected -> listening and     *)
(* holds at most one accepted connection.  It accepts only while it is     *)
(* listening, i.e. after the servicing of the previous connection ended;   *)
(* it stops servicing a connection only when a write on it failed (the     *)
(* handshake byte, or a frame, which then stays pending); and bytes are    *)
(* only ever added to the connection accepted last, while it is serviced   *)
(* or as its handshake.                                                    *)
(***************************************************************************)
\* The connection the manager holds: the one accepted last, while it is serviced.
Current == IF mgr = "serve" THEN {Len(conns)} ELSE {}

\* The manager's position moves round the loop of handle_connections.
C21_Round ==
    /\ mgr = "bind" => mgr' \in {"bind", "listen", AfterBindError}
    /\ mgr = "listen" => mgr' \in {"listen", "serve", "bind"}
    /\ mgr = "serve" => mgr' \in {"serve", "bind"}

\* A connection is accepted only by a manager that is listening and holds none;
\* the older connections keep their bytes.
C21_Accepts ==
    Len(conns') # Len(conns) =>
        /\ mgr = "listen"
        /\ Current = {}
        /\ Len(conns') = Len(conns) + 1
        /\ Take(conns', Len(conns)) = conns
        /\ \/ mgr' = "serve" /\ conns'[Len(conns')] = <<WIRE_PROTOCOL_VERSION>>
           \/ mgr' = "bind" /\ conns'[Len(conns')] = <<>>

\* Servicing ends only with a failed write of the pending frame.
C21_Leaves ==
    (mgr = "serve" /\ mgr' # "serve") =>
        /\ mgr' = "bind"
        /\ curr_msg # None
        /\ curr_msg' = curr_msg
        /\ written' = written
        /\ \E k \in 0..(Len(curr_msg.frame) - 1) :
              conns' = [conns EXCEPT ![Len(conns)] = @ \o Take(curr_msg.frame, k)]

\* Bytes are added to the current connection only.
C21_Writes ==
    (Len(conns') = Len(conns) /\ conns' # conns) =>
        /\ mgr = "serve"
        /\ \A c \in 1..Len(conns) : c \notin Current => conns'[c] = conns[c]
        /\ \A c \in Current : IsPrefix(conns[c], conns'[c])

C21_OneConnectionAtATime ==
    [][C21_Round /\ C21_Accepts /\ C21_Leaves /\ C21_Writes]_vars

\* The second connection is being serviced and has received a whole frame, after
\* the first one ended with a write that failed inside a frame.
C21_Witness ==
    /\ mgr = "serve"
    /\ Len(conns) = 2
    /\ Len(conns[1]) > 1
    /\ pend[2] # None
    /\ Len(conns[2]) > 1 + Len(pend[2].frame)
    /\ curr_msg = None

(***************************************************************************)
(* C22: the time field of a frame is the clock value read in the calling   *)
(* thread when send_message builds the message.  It is fixed before the    *)
(* message enters the mailbox and is not read again when the manager       *)
(* writes: whatever the clock shows by then, the first transmission and    *)
(* every retransmission carry the time of the call.                        *)
(***************************************************************************)
TimeField(frame) == SubSeq(frame, LEN_FIELD_SIZE + 1, LEN_FIELD_SIZE + 8)

\* The messages that exist: being sent by a thread, in the mailbox, pending, or enqueued before.
Messages ==
    { e \in { out[t] : t \in Threads } \cup Range(mailbox) \cup {curr_msg} \cup Range(enq) :
        e # None /\ e.kind = "NewMessage" }

\* The call reads the clock: the message it builds carries the time of the call.
C22_Built ==
    \A t \in Threads :
        (pc[t] = "idle" /\ pc'[t] = "send") =>
            /\ out'[t].src.time = <<0, clock>>
            /\ TimeField(out'[t].frame) = U64BE(<<0, clock>>)

\* Every message carries the time of its call for as long as it exists.
C22_State ==
    /\ \A e \in Messages : TimeField(e.frame) = U64BE(e.src.time)
    /\ \A c \in 1..Len(conns) :
          conns[c] # <<>> =>
              \E i \in 1..(Len(MsgsOf(enq)) + 1) : IsPrefix(Drop(conns[c], 1), FramesFrom(i))

\* What the manager writes is the pending frame as it was built.
C22_Sent ==
    (Len(conns') = Len(conns) /\ conns' # conns) =>
        /\ curr_msg # None
        /\ \E k \in 1..Len(curr_msg.frame) :
              conns' = [conns EXCEPT ![Len(conns)] = @ \o Take(curr_msg.frame, k)]

C22_TimeOfCall == []C22_State /\ [][C22_Built /\ C22_Sent]_vars

\* A message built at time 1 was written up to its last byte but one on the first
\* connection and whole on the second, and the clock shows a later time.
C22_Witness ==
    /\ clock > 1
    /\ Len(conns) = 2
    /\ pend[2] # None
    /\ pend[2].src.time = <<0, 1>>
    /\ conns[1] = <<1>> \o Take(pend[2].frame, Len(pend[2].frame) - 1)
    /\ IsPrefix(<<1>> \o pend[2].frame, conns[2])
    /\ TimeField(Drop(conns[2], 1)) = U64BE(<<0, 1>>)

(***************************************************************************)
(* C23: decoding a frame built by Message::new on a thread yields the full *)
(* debug rendering of that thread's id, "ThreadId(<n>)", as thread_id, and *)
(* the filename, line and payload the call was given (the expectations of  *)
(* the tests deserialize_msg and deserialize_vals).                        *)
(***************************************************************************)
C23_DecodedAsTestsExpect ==
    cdec # None =>
        /\ cdec.ok
        /\ cdec.val.thread_id = ThreadIdDebug(cmsg.thread)
        /\ cdec.val.filename = cmsg.filename
        /\ cdec.val.line = cmsg.line
        /\ cdec.val.payload = cmsg.payload

(***************************************************************************)
(* C24: parse_thread_id returns X for every text of exactly the form       *)
(* "ThreadId(X)", X holding no parenthesis, and returns its argument       *)
(* unchanged for every other text: another prefix, no closing parenthesis, *)
(* or characters or parentheses after the closing parenthesis.             *)
(***************************************************************************)
\* s is "ThreadId(" X ")" with no parenthesis in X.
ExactForm(s) ==
    /\ Len(s) >= Len(THREAD_ID_PREFIX) + 2
    /\ Take(s, Len(THREAD_ID_PREFIX)) = THREAD_ID_PREFIX
    /\ s[Len(THREAD_ID_PREFIX) + 1] = 40
    /\ s[Len(s)] = 41
    /\ \A i \in (Len(THREAD_ID_PREFIX) + 2)..(Len(s) - 1) : s[i] \notin {40, 41}

Inner(s) == SubSeq(s, Len(THREAD_ID_PREFIX) + 2, Len(s) - 1)

C24_ParseThreadId ==
    tid_ret # None =>
        tid_ret.text = IF ExactForm(tid_arg.text) THEN Inner(tid_arg.text) ELSE tid_arg.text

(***************************************************************************)
(* C25: the manager takes an entry out of the mailbox only while it        *)
(* services a connection whose handshake byte was written and while no     *)
(* message is pending.  So at most one message is pending at any time (the *)
(* messages received are the written ones and, last, the pending one), a   *)
(* flush is signalled only with no message pending, and a failed accept or *)
(* a failed handshake write leaves mailbox and pending message as they     *)
(* were.                                                                   *)
(***************************************************************************)
C25_Removes ==
    (mailbox' # mailbox /\ Len(mailbox') <= Len(mailbox)) =>
        /\ mgr = "serve"
        /\ conns[Len(conns)] # <<>>
        /\ conns[Len(conns)][1] = WIRE_PROTOCOL_VERSION
        /\ curr_msg = None
        /\ mailbox' = Tail(mailbox)
        /\ deq' = Append(deq, Head(mailbox))
        /\ curr_msg' = IF Head(mailbox).kind = "NewMessage" THEN Head(mailbox) ELSE None

C25_OnePending ==
    IdsOf(deq) = IF curr_msg = None THEN written ELSE Append(written, curr_msg.id)

C25_Signals ==
    (~flushed /\ flushed') =>
        /\ curr_msg = None
        /\ curr_msg' = None
        /\ mailbox # <<>>
        /\ Head(mailbox).kind = "Flush"

C25_FailedAccept ==
    (mgr = "listen" /\ mgr' = "bind") => UNCHANGED << mailbox, curr_msg, deq >>

C25_ReceivesOnlyWhenFree ==
    []C25_OnePending /\ [][C25_Removes /\ C25_Signals /\ C25_FailedAccept]_vars

\* After a connection whose handshake write failed, a message was received and
\* written on the next connection and the marker behind it was signalled.
C25_Witness ==
    /\ Len(conns) = 2
    /\ conns[1] = <<>>
    /\ Len(conns[2]) > 1
    /\ Len(deq) = 2
    /\ written # <<>>
    /\ flushed
    /\ curr_msg = None

(***************************************************************************)
(* C26: the items the connector yields form a well-formed sequence.  The   *)
(* first is Connected or BadVersion; a Message, a Disconnected, a BadUtf8  *)
(* or a CorruptMsg comes after a Connected with no Disconnected and no     *)
(* error between the two; directly after a Disconnected or an error comes  *)
(* Connected or BadVersion; and the connector has a stored connection      *)
(* exactly when the last item was Connected or Message.                    *)
(***************************************************************************)
IsConnected(i) == items[i].ev = "Connected"
IsBadVersion(i) == items[i].ev = "Error" /\ items[i].err = "BadVersion"
IsEnd(i) == items[i].ev \in {"Disconnected", "Error"}
OnConnection(i) == items[i].ev \in {"Message", "Disconnected"}
                       \/ (items[i].ev = "Error" /\ items[i].err \in {"BadUtf8", "CorruptMsg"})

C26_WellFormed ==
    /\ \A i \in 1..Len(items) :
          \/ items[i].ev \in {"Connected", "Disconnected", "Message"}
          \/ items[i].ev = "Error" /\ items[i].err \in {"BadVersion", "BadUtf8", "CorruptMsg"}
    /\ items # <<>> => (IsConnected(1) \/ IsBadVersion(1))
    /\ \A i \in 1..Len(items) :
          OnConnection(i) =>
              \E j \in 1..(i - 1) : IsConnected(j) /\ \A k \in (j + 1)..(i - 1) : ~IsEnd(k)
    /\ \A i \in 1..(Len(items) - 1) :
          IsEnd(i) => (IsConnected(i + 1) \/ IsBadVersion(i + 1))
    /\ vst = "connected" <=> (items # <<>> /\ LastItem.ev \in {"Connected", "Message"})

\* Connected, a message, a decoding error, then on the next connection Connected and
\* Disconnected.
C26_Witness ==
    /\ Len(items) = 5
    /\ IsConnected(1)
    /\ items[2].ev = "Message"
    /\ items[3].ev = "Error" /\ items[3].err \in {"BadUtf8", "CorruptMsg"}
    /\ IsConnected(4)
    /\ items[5].ev = "Disconnected"
    /\ vst = "connecting"

(***************************************************************************)
(* C27: the manager thread never stops on its own.  Whatever it receives   *)
(* (a message or a flush marker) and however a connection ends, it is      *)
(* somewhere in its loop until a failed bind ends the process; receiving   *)
(* keeps it servicing, a connection that ends takes it back to binding,    *)
(* and from there it listens again unless that bind fails.                 *)
(***************************************************************************)
C27_State ==
    /\ mgr \in {"unborn", "bind", "listen", "serve", "exited"}
    /\ mgr = "exited" => listener = "failed"

C27_Step ==
    /\ deq' # deq => (mgr = "serve" /\ mgr' = "serve")
    /\ (mgr = "serve" /\ mgr' # "serve") => mgr' = "bind"
    /\ (mgr = "listen" /\ mgr' \notin {"listen", "serve"}) => mgr' = "bind"
    /\ (mgr # "exited" /\ mgr' = "exited") => (mgr = "bind" /\ listener' = "failed")
    /\ mgr # "unborn" => mgr' # "unborn"

C27_ListensAgain == (mgr = "bind") ~> (mgr \in {"listen", "exited"})

C27_NeverStops == []C27_State /\ [][C27_Step]_vars /\ C27_ListensAgain

\* The manager is listening for the third time: it received a marker and a message,
\* the write of the message failed, and the handshake of the next connection failed.
C27_Witness ==
    /\ mgr = "listen"
    /\ Len(conns) = 2
    /\ conns[1] # <<>>
    /\ conns[2] = <<>>
    /\ Len(deq) = 2
    /\ deq[1].kind = "Flush"
    /\ curr_msg # None

====
